---- MODULE Spec2Model ----
(***************************************************************************)
(* Typing Speed Tester: the metrics functions of src/src/logic.py, the     *)
(* store wrapper TypingDB of src/src/db.py and the Streamlit session       *)
(* handlers of src/API/main.py.                                            *)
(*                                                                         *)
(* Conventions.                                                            *)
(*  - A Python str is a sequence of one-character strings.                 *)
(*  - A float that the code rounds to 2 decimals is an integer number of   *)
(*    hundredths (50.0 is 5000).  round() is round-half-even on the exact  *)
(*    quotient.                                                            *)
(*  - A time (time.time(), an elapsed duration) is an integer number of    *)
(*    ticks, TicksPerSecond ticks to the second.                           *)
(*  - None is the empty tuple and an Optional value x that is present is   *)
(*    the 1-tuple <<x>> (Some(x)), so that both compare.                   *)
(***************************************************************************)
EXTENDS Integers, Sequences, FiniteSets, TLC

\* ------------------------------------------------------------------ bounds
\* Longest string handed to a metrics function.
MaxLen == 2
\* Resolution of the clock: ticks per second.
TicksPerSecond == 20

None == <<>>
Some(x) == <<x>>
Get(o) == o[1]

\* Characters of the strings handed to the metrics functions: two letters
\* that differ only in case, and a third one.
Alphabet == {"a", "A", "b"}

StringsOver(chars, n) == UNION {[1..k -> chars] : k \in 0..n}

Min(a, b) == IF a < b THEN a ELSE b

\* round(n / d, 0) for d > 0, half to even (\div floors, so n < 0 is covered).
RoundHalfEven(n, d) ==
    LET q == n \div d
        r == n % d
    IN  IF 2 * r < d THEN q
        ELSE IF 2 * r > d THEN q + 1
        ELSE IF q % 2 = 0 THEN q ELSE q + 1

\* ------------------------------------------------------------ logic.py
\* A plausible slip: the guard tests "== 0" and lets a negative time through.
calculate_wpm_ZeroOnly(text_length, ticks) ==
    IF ticks = 0 THEN 0
    ELSE IF ticks < 0
    THEN 0 - RoundHalfEven(100 * text_length * 60 * TicksPerSecond, 5 * (0 - ticks))
    ELSE RoundHalfEven(100 * text_length * 60 * TicksPerSecond, 5 * ticks)

\* A plausible slip: the time taken by its magnitude, abs(time_seconds).
calculate_wpm_AbsTime(text_length, ticks) ==
    IF ticks = 0 THEN 0
    ELSE RoundHalfEven(100 * text_length * 60 * TicksPerSecond,
                       5 * (IF ticks < 0 THEN 0 - ticks ELSE ticks))

\* A plausible slip: the result truncated to 2 decimals instead of rounded.
calculate_wpm_Truncated(text_length, ticks) ==
    IF ticks <= 0 THEN 0
    ELSE (100 * text_length * 60 * TicksPerSecond) \div (5 * ticks)

\* calculate_wpm(text_length, time_seconds), the time in ticks; hundredths.
\*   words / minutes = (len / 5) / (ticks / TicksPerSecond / 60)
calculate_wpm(text_length, ticks) ==
    IF ticks <= 0 THEN 0
    ELSE RoundHalfEven(100 * text_length * 60 * TicksPerSecond, 5 * ticks)

\* The loop of calculate_accuracy: i runs over range(min(len, len)), counting.
RECURSIVE CountCorrect(_, _, _, _)
CountCorrect(original_text, typed_text, i, correct_chars) ==
    IF i > Min(Len(original_text), Len(typed_text)) THEN correct_chars
    ELSE CountCorrect(original_text, typed_text, i + 1,
                      IF original_text[i] = typed_text[i]
                      THEN correct_chars + 1 ELSE correct_chars)

\* A plausible slip: the overtyped branch divides by len(original) as well.
calculate_accuracy_NoExtraPenalty(original_text, typed_text) ==
    IF original_text = <<>> THEN <<10000, 0, 0>>
    ELSE LET correct_chars == CountCorrect(original_text, typed_text, 1, 0)
             total_chars == Len(original_text)
         IN  <<RoundHalfEven(correct_chars * 10000, total_chars),
               correct_chars, total_chars>>

\* calculate_accuracy(original_text, typed_text) =
\*   <<accuracy in hundredths, correct_chars, total_chars>>
calculate_accuracy(original_text, typed_text) ==
    IF original_text = <<>> THEN <<10000, 0, 0>>
    ELSE LET correct_chars == CountCorrect(original_text, typed_text, 1, 0)
             total_chars == Len(original_text)
         IN  IF Len(typed_text) < Len(original_text)
             THEN <<RoundHalfEven(correct_chars * 10000, total_chars),
                    correct_chars, total_chars>>
             ELSE LET extra_chars == Len(typed_text) - Len(original_text)
                      total_chars_considered == Len(original_text) + extra_chars
                  IN  <<RoundHalfEven(correct_chars * 10000,
                                      total_chars_considered),
                        correct_chars, total_chars>>

\* A plausible slip: the accuracy test placed before the two wpm tests.
validate_test_result_AccuracyFirst(wpm, accuracy) ==
    IF accuracy < 0 \/ accuracy > 10000
    THEN <<FALSE, "Accuracy must be between 0 and 100">>
    ELSE IF wpm < 0 THEN <<FALSE, "WPM cannot be negative">>
    ELSE IF wpm > 30000 THEN <<FALSE, "WPM seems unrealistically high (>300)">>
    ELSE <<TRUE, "">>

\* validate_test_result(wpm, accuracy) = <<is_valid, error_message>>
validate_test_result(wpm, accuracy) ==
    IF wpm < 0 THEN <<FALSE, "WPM cannot be negative">>
    ELSE IF wpm > 30000 THEN <<FALSE, "WPM seems unrealistically high (>300)">>
    ELSE IF accuracy < 0 \/ accuracy > 10000
         THEN <<FALSE, "Accuracy must be between 0 and 100">>
    ELSE <<TRUE, "">>

\* A plausible slip: the bands closed above, "<=" for "<".
get_performance_rating_Inclusive(wpm, accuracy) ==
    IF accuracy <= 8000 THEN "Poor - Focus on accuracy first"
    ELSE IF accuracy <= 9000 THEN "Fair - Good progress, keep practicing"
    ELSE IF wpm <= 2000 THEN "Beginner - Great start!"
    ELSE IF wpm <= 4000 THEN "Intermediate - Nice progress!"
    ELSE IF wpm <= 6000 THEN "Advanced - Excellent typing!"
    ELSE IF wpm <= 8000 THEN "Expert - Outstanding speed!"
    ELSE "Master - Incredible performance!"

\* get_performance_rating(wpm, accuracy), both in hundredths.
get_performance_rating(wpm, accuracy) ==
    IF accuracy < 8000 THEN "Poor - Focus on accuracy first"
    ELSE IF accuracy < 9000 THEN "Fair - Good progress, keep practicing"
    ELSE IF wpm < 2000 THEN "Beginner - Great start!"
    ELSE IF wpm < 4000 THEN "Intermediate - Nice progress!"
    ELSE IF wpm < 6000 THEN "Advanced - Excellent typing!"
    ELSE IF wpm < 8000 THEN "Expert - Outstanding speed!"
    ELSE "Master - Incredible performance!"

Abs(x) == IF x < 0 THEN 0 - x ELSE x

\* round(n / d, 0) for d # 0.
RoundQuotient(n, d) == IF d < 0 THEN RoundHalfEven(0 - n, 0 - d) ELSE RoundHalfEven(n, d)

\* The three f-strings of calculate_progress, the amount in hundredths.
ProgressMessage(improvement) ==
    IF improvement > 0
    THEN <<"Improved by ", RoundHalfEven(Abs(improvement), 10), " WPM! Keep it up!">>
    ELSE IF improvement < 0
    THEN <<"Decreased by ", RoundHalfEven(Abs(improvement), 10),
           " WPM. Don't worry, practice makes perfect!">>
    ELSE <<"Same speed. Keep practicing!">>

\* A plausible slip: the message chosen by the rounded improvement.
calculate_progress_MessageOnRounded(current_wpm, previous_wpm) ==
    IF previous_wpm = 0
    THEN [improvement |-> 0, percentage |-> 0,
          message |-> <<"First test - baseline established!">>]
    ELSE LET improvement == current_wpm - previous_wpm
         IN  [improvement |-> RoundHalfEven(improvement, 10),
              percentage |-> RoundQuotient(100 * 100 * improvement, previous_wpm),
              message |-> ProgressMessage(10 * RoundHalfEven(improvement, 10))]

\* calculate_progress(current_wpm, previous_wpm).  The arguments are in
\* thousandths, the improvement and the percentage returned in hundredths.
calculate_progress(current_wpm, previous_wpm) ==
    IF previous_wpm = 0
    THEN [improvement |-> 0, percentage |-> 0,
          message |-> <<"First test - baseline established!">>]
    ELSE LET improvement == current_wpm - previous_wpm
         IN  [improvement |-> RoundHalfEven(improvement, 10),
              percentage |-> RoundQuotient(100 * 100 * improvement, previous_wpm),
              message |-> ProgressMessage(improvement)]

\* original_text[i] if i < len(original_text) else "", for the 0-based i.
CharAt(text, i) == IF i < Len(text) THEN text[i + 1] ELSE ""

Max(a, b) == IF a > b THEN a ELSE b

\* A plausible slip: no branch for a typed character past the original.
StatusOf_NoExtra(original_char, typed_char) ==
    IF original_char = typed_char THEN "correct"
    ELSE IF typed_char = "" THEN "missing"
    ELSE "incorrect"

\* The status chosen in the loop of get_character_comparison.
StatusOf(original_char, typed_char) ==
    IF original_char = typed_char THEN "correct"
    ELSE IF typed_char = "" THEN "missing"
    ELSE IF original_char = "" THEN "extra"
    ELSE "incorrect"

\* A plausible slip: the loop runs to the shorter of the two lengths.
get_character_comparison_ToShorter(original_text, typed_text) ==
    [k \in 1..Min(Len(original_text), Len(typed_text)) |->
        [index |-> k - 1,
         original |-> CharAt(original_text, k - 1),
         typed |-> CharAt(typed_text, k - 1),
         status |-> StatusOf(CharAt(original_text, k - 1),
                             CharAt(typed_text, k - 1))]]

\* get_character_comparison(original_text, typed_text): the list appended to
\* for i in range(max_length).
get_character_comparison(original_text, typed_text) ==
    [k \in 1..Max(Len(original_text), Len(typed_text)) |->
        [index |-> k - 1,
         original |-> CharAt(original_text, k - 1),
         typed |-> CharAt(typed_text, k - 1),
         status |-> StatusOf(CharAt(original_text, k - 1),
                             CharAt(typed_text, k - 1))]]

\* ------------------------------------------------------------------ state
VARIABLES
    fn_call,        \* the metrics function under call and its arguments
    fn_ret,         \* Some(its return value), None before the call returns
    users,          \* table users: sequence of [user_id, name, email]
    typing_tests,   \* table typing_tests, in insertion (test_date) order
    db_ret,         \* the last TypingDB call: its arguments and what came back
    user,           \* st.session_state.user: None or Some(row of users)
    test_started,   \* st.session_state.test_started
    start_time,     \* st.session_state.start_time: None or Some(time)
    test_text,      \* st.session_state.test_text
    typed_text,     \* st.session_state.typed_text
    saved_for_test, \* rows inserted into typing_tests since the last start_test
    page            \* what the last script run rendered, until the next run

logic == <<fn_call, fn_ret>>
session == <<user, test_started, start_time, test_text, typed_text,
             saved_for_test, page>>
vars == <<fn_call, fn_ret, users, typing_tests, db_ret, session>>

\* ------------------------------------------------------- the store (Supabase)
\* Most rows the table typing_tests holds.
MaxTests == 2

Emails == {"x@e", "y@e"}
Names == {"Ann", "Bob"}
\* user_id: those the store can hold, and one more that it never holds.
UserIds == 1..(Cardinality(Emails) + 1)
\* The one name of the calls that are not about names.
CallNames == {"Ann"}

\* What a failing .execute() raises: the message.  create_user looks for the
\* words "duplicate key", "unique" and "connection" in it.
DuplicateKeyError == "duplicate key value violates unique constraint"
ConnectionError == "connection refused"
OtherError == "relation does not exist"
NoError == ""
ForeignKeyError == "violates foreign key constraint"
\* The failures of the environment, which any call may meet.
StoreFailures == {ConnectionError, OtherError}

Range(s) == {s[i] : i \in 1..Len(s)}

\* select * from users where <field> = value: the rows, in table order.
SelectUsers(field, value) == SelectSeq(users, LAMBDA u : u[field] = value)

\* The row the store builds for an insert into users (user_id is a serial).
NewUserRow(name, email) ==
    [user_id |-> Len(users) + 1, name |-> name, email |-> email]

\* The row the store builds for an insert into typing_tests (test_date
\* defaults to the time of the insert: the position in the table).
NewTestRow(user_id, wpm, accuracy) ==
    [user_id |-> user_id, wpm |-> wpm, accuracy |-> accuracy,
     test_date |-> Len(typing_tests) + 1]

\* A plausible slip: the order without desc=True, ascending.
DescOrders_Ascending(rows, key) ==
    LET n == Len(rows)
        perms == {p \in [1..n -> 1..n] : \A i, j \in 1..n : i # j => p[i] # p[j]}
    IN  {[i \in 1..n |-> rows[p[i]]] :
            p \in {q \in perms :
                     \A i \in 1..n - 1 : rows[q[i]][key] <= rows[q[i + 1]][key]}}

\* The orders in which a query ".order(key, desc=True)" may return rows: every
\* arrangement with non-increasing key (rows of equal key come in any order).
DescOrders(rows, key) ==
    LET n == Len(rows)
        perms == {p \in [1..n -> 1..n] : \A i, j \in 1..n : i # j => p[i] # p[j]}
    IN  {[i \in 1..n |-> rows[p[i]]] :
            p \in {q \in perms :
                     \A i \in 1..n - 1 : rows[q[i]][key] >= rows[q[i + 1]][key]}}

\* A plausible slip: the query without its .limit(limit).
Limit_Dropped(rows, limit) == rows

\* .limit(limit): the first rows.
Limit(rows, limit) == SubSeq(rows, 1, Min(limit, Len(rows)))

SetMax(S) == CHOOSE m \in S : \A x \in S : x <= m

\* The view top_tests: the individual tests (user_id, wpm, accuracy, test_date).
TopTestsView == typing_tests

\* The view leaderboard: one row per user with a test, the user's best wpm and
\* best accuracy.  The rows come in user_id order before the query sorts them.
LeaderboardView ==
    LET ids == {t.user_id : t \in Range(typing_tests)}
        row(u) == [user_id |-> u,
                   max_wpm |-> SetMax({t.wpm : t \in {x \in Range(typing_tests) : x.user_id = u}}),
                   best_accuracy |-> SetMax({t.accuracy : t \in {x \in Range(typing_tests) : x.user_id = u}})]
        RECURSIVE build(_)
        build(u) == IF u > Len(users) THEN <<>>
                    ELSE IF u \in ids THEN <<row(u)>> \o build(u + 1)
                    ELSE build(u + 1)
    IN  build(1)

\* limit of the get_user_tests call in get_user_average_stats
StatsLimit == 1000
\* limit of the get_leaderboard call in get_user_rank
RankLimit == 1000

\* ------------------------------------------------------------------- db.py
\* Every operation below is the set of its possible outcomes in the current
\* store: one outcome per way the calls to the store may answer or fail.
\*   ret     what the method returns (meaningless when raised)
\*   raised  whether an exception left the method
\*   error   the message of the store failure the method met, or None

\* A plausible slip: the connection branch prints and returns None as well.
CreateUserOnError_Swallow(name, email, msg) ==
    [ret |-> None, raised |-> FALSE, error |-> msg, users |-> users]

\* The except branch of create_user.
CreateUserOnError(name, email, msg) ==
    IF msg = DuplicateKeyError
    THEN [ret |-> None, raised |-> FALSE, error |-> msg, users |-> users]
    ELSE IF msg = ConnectionError
    THEN [ret |-> None, raised |-> TRUE, error |-> msg, users |-> users]
    ELSE [ret |-> None, raised |-> FALSE, error |-> msg, users |-> users]

\* create_user(name, email): the unique index on email rejects a second row.
create_user(name, email) ==
    LET inserted == IF SelectUsers("email", email) = <<>>
                    THEN {[ret |-> Some(NewUserRow(name, email)), raised |-> FALSE,
                           error |-> NoError,
                           users |-> Append(users, NewUserRow(name, email))]}
                    ELSE {CreateUserOnError(name, email, DuplicateKeyError)}
    IN  inserted \cup {CreateUserOnError(name, email, msg) : msg \in StoreFailures}

\* A plausible slip: the lookup without its .eq("email", email) filter.
get_user_by_email_NoFilter(email) ==
    {[ret |-> IF users # <<>> THEN Some(users[1]) ELSE None,
      raised |-> FALSE, error |-> NoError]}
    \cup {[ret |-> None, raised |-> FALSE, error |-> msg] : msg \in StoreFailures}

\* get_user_by_email(email)
get_user_by_email(email) ==
    LET data == SelectUsers("email", email)
    IN  {[ret |-> IF data # <<>> THEN Some(data[1]) ELSE None,
          raised |-> FALSE, error |-> NoError]}
        \cup {[ret |-> None, raised |-> FALSE, error |-> msg] : msg \in StoreFailures}

\* get_user_by_id(user_id)
get_user_by_id(user_id) ==
    LET data == SelectUsers("user_id", user_id)
    IN  {[ret |-> IF data # <<>> THEN Some(data[1]) ELSE None,
          raised |-> FALSE, error |-> NoError]}
        \cup {[ret |-> None, raised |-> FALSE, error |-> msg] : msg \in StoreFailures}

\* The except branch of save_typing_test.
SaveTypingTestOnError(msg) ==
    [ret |-> None, raised |-> FALSE, error |-> msg, typing_tests |-> typing_tests]

\* save_typing_test(user_id, wpm, accuracy): user_id is a foreign key to users,
\* so the store rejects a row for a user that does not exist.
save_typing_test(user_id, wpm, accuracy) ==
    LET inserted ==
            IF SelectUsers("user_id", user_id) # <<>>
            THEN {[ret |-> Some(NewTestRow(user_id, wpm, accuracy)), raised |-> FALSE,
                   error |-> NoError,
                   typing_tests |-> Append(typing_tests,
                                           NewTestRow(user_id, wpm, accuracy))]}
            ELSE {SaveTypingTestOnError(ForeignKeyError)}
    IN  inserted \cup {SaveTypingTestOnError(msg) : msg \in StoreFailures}

\* The rows of typing_tests of one user, in table order.
TestsOf(user_id) == SelectSeq(typing_tests, LAMBDA t : t.user_id = user_id)

Reverse(s) == [i \in 1..Len(s) |-> s[Len(s) + 1 - i]]

RECURSIVE SumOf(_, _)
SumOf(rows, key) ==
    IF rows = <<>> THEN 0 ELSE rows[1][key] + SumOf(Tail(rows), key)

\* get_user_tests(user_id, limit): newest first.
get_user_tests(user_id, limit) ==
    {[ret |-> Limit(Reverse(TestsOf(user_id)), limit), raised |-> FALSE,
      error |-> NoError]}
    \cup {[ret |-> <<>>, raised |-> FALSE, error |-> msg] : msg \in StoreFailures}

\* get_user_best_score(user_id): the first row by wpm descending.
get_user_best_score(user_id) ==
    {[ret |-> IF o # <<>> THEN Some(o[1]) ELSE None, raised |-> FALSE, error |-> NoError] :
        o \in DescOrders(TestsOf(user_id), "wpm")}
    \cup {[ret |-> None, raised |-> FALSE, error |-> msg] : msg \in StoreFailures}

NoStats == [avg_wpm |-> 0, avg_accuracy |-> 0, total_tests |-> 0]

\* get_user_average_stats(user_id), over get_user_tests(user_id, limit=1000).
get_user_average_stats(user_id) ==
    {[ret |-> IF r.ret = <<>> THEN NoStats
              ELSE [avg_wpm |-> RoundHalfEven(SumOf(r.ret, "wpm"), Len(r.ret)),
                    avg_accuracy |-> RoundHalfEven(SumOf(r.ret, "accuracy"), Len(r.ret)),
                    total_tests |-> Len(r.ret)],
      raised |-> FALSE, error |-> r.error] :
        r \in get_user_tests(user_id, StatsLimit)}

NoGlobalStats ==
    [total_tests |-> 0, avg_wpm |-> 0, highest_wpm |-> 0, avg_accuracy |-> 0]

\* get_global_stats()
get_global_stats ==
    {[ret |-> IF typing_tests = <<>> THEN NoGlobalStats
              ELSE [total_tests |-> Len(typing_tests),
                    avg_wpm |-> RoundHalfEven(SumOf(typing_tests, "wpm"),
                                              Len(typing_tests)),
                    highest_wpm |-> SetMax({t.wpm : t \in Range(typing_tests)}),
                    avg_accuracy |-> RoundHalfEven(SumOf(typing_tests, "accuracy"),
                                                   Len(typing_tests))],
      raised |-> FALSE, error |-> NoError]}
    \cup {[ret |-> NoGlobalStats, raised |-> FALSE, error |-> msg] :
            msg \in StoreFailures}


\* ------------------------------------------------- db.py: the leaderboard
\* What .order(key, desc=True).limit(limit).execute() may do on a relation:
\* raise (the handlers of get_leaderboard do not look at the message), or
\* answer with the first rows of one of the descending orders.
QueryAnswers(rows, key, limit) ==
    {[raised |-> FALSE, data |-> Limit(o, limit)] : o \in DescOrders(rows, key)}
    \cup {[raised |-> TRUE, data |-> <<>>]}

\* The status of a tier that was queried.
TierStatus(answer) ==
    IF answer.raised THEN "raised"
    ELSE IF answer.data = <<>> THEN "empty" ELSE "rows"

\* A plausible slip: an empty answer is returned as the result.
FallsThrough_OnlyOnError(answer) == answer.raised

\* Tiers 1 and 2 go on to the next tier when the query raised (except) or
\* "if resp.data:" is false.
FallsThrough(answer) == answer.raised \/ answer.data = <<>>

\* The dict built for a row of top_tests or typing_tests.
TestEntry(row, found) ==
    [user_id |-> row.user_id,
     name |-> IF found # None THEN Get(found).name ELSE "Unknown",
     wpm |-> row.wpm, accuracy |-> row.accuracy, test_date |-> row.test_date]

\* The dict built for a row of the leaderboard view.
ViewEntry(row, found) ==
    [user_id |-> row.user_id,
     name |-> IF found # None THEN Get(found).name ELSE "Unknown",
     wpm |-> row.max_wpm, accuracy |-> row.best_accuracy]

\* The user lookups of the loop over the rows: one get_user_by_id per row, each
\* of which may find the user or fail (and return None).
Lookups(data) ==
    LET n == Len(data)
        look(i) == {r.ret : r \in get_user_by_id(data[i].user_id)}
    IN  {g \in [1..n -> UNION {look(i) : i \in 1..n}] :
            \A i \in 1..n : g[i] \in look(i)}

\* The loop over the rows of top_tests or typing_tests.
ConvertTests(data) ==
    {[i \in 1..Len(data) |-> TestEntry(data[i], f[i])] : f \in Lookups(data)}

\* The loop over the rows of the leaderboard view.
ConvertView(data) ==
    {[i \in 1..Len(data) |-> ViewEntry(data[i], f[i])] : f \in Lookups(data)}

\* A plausible slip: tier 3 without its except clause.
LeaderboardViewOnError_Propagate(tiers) ==
    [ret |-> <<>>, raised |-> TRUE, error |-> NoError, tiers |-> tiers,
     rows |-> <<>>]

\* The except clause of tier 3: print and return [].  (get_leaderboard meets
\* up to three failures; its outcome keeps the tier statuses, not a message.)
LeaderboardViewOnError(tiers) ==
    [ret |-> <<>>, raised |-> FALSE, error |-> NoError, tiers |-> tiers,
     rows |-> <<>>]

\* Tier 3: the leaderboard view.  tiers: the statuses of the tiers before.
LeaderboardTier3(limit, tiers) ==
    UNION {
        LET t == Append(tiers, TierStatus(a3))
        IN  IF a3.raised THEN {LeaderboardViewOnError(t)}
            ELSE IF a3.data = <<>>
            THEN {[ret |-> <<>>, raised |-> FALSE, error |-> NoError, tiers |-> t,
                   rows |-> <<>>]}
            ELSE {[ret |-> r, raised |-> FALSE, error |-> NoError, tiers |-> t,
                   rows |-> a3.data] :
                    r \in ConvertView(a3.data)}
        : a3 \in QueryAnswers(LeaderboardView, "max_wpm", limit)}

\* Tier 2: the table typing_tests.
LeaderboardTier2(limit, tiers) ==
    UNION {
        LET t == Append(tiers, TierStatus(a2))
        IN  IF FallsThrough(a2) THEN LeaderboardTier3(limit, t)
            ELSE {[ret |-> r, raised |-> FALSE, error |-> NoError, tiers |-> t,
                   rows |-> a2.data] :
                    r \in ConvertTests(a2.data)}
        : a2 \in QueryAnswers(typing_tests, "wpm", limit)}

\* get_leaderboard(limit).  tiers: the status of each tier queried, in the
\* order of the queries; rows: the rows the answering tier returned.
get_leaderboard(limit) ==
    UNION {
        LET t == <<TierStatus(a1)>>
        IN  IF FallsThrough(a1) THEN LeaderboardTier2(limit, t)
            ELSE {[ret |-> r, raised |-> FALSE, error |-> NoError, tiers |-> t,
                   rows |-> a1.data] :
                    r \in ConvertTests(a1.data)}
        : a1 \in QueryAnswers(TopTestsView, "wpm", limit)}

\* A plausible slip: enumerate(leaderboard) counting from 0.
RankIn_ZeroBased(leaderboard, user_id) ==
    LET hits == {i \in 1..Len(leaderboard) : leaderboard[i].user_id = user_id}
    IN  IF hits = {} THEN None
        ELSE Some((CHOOSE i \in hits : \A j \in hits : i <= j) - 1)

\* The scan of get_user_rank: idx counts from 1, the first match returns.
RECURSIVE RankFrom(_, _, _)
RankFrom(leaderboard, user_id, idx) ==
    IF idx > Len(leaderboard) THEN None
    ELSE IF leaderboard[idx].user_id = user_id THEN Some(idx)
    ELSE RankFrom(leaderboard, user_id, idx + 1)

RankIn(leaderboard, user_id) == RankFrom(leaderboard, user_id, 1)

\* A plausible slip: a user that is not listed is ranked after the last entry.
get_user_rank_LastPlace(user_id) ==
    {[ret |-> IF RankIn(lb.ret, user_id) = None THEN Some(Len(lb.ret) + 1)
              ELSE RankIn(lb.ret, user_id),
      raised |-> FALSE, error |-> lb.error,
      leaderboard |-> lb.ret, tiers |-> lb.tiers] :
        lb \in get_leaderboard(RankLimit)}

\* get_user_rank(user_id), over get_leaderboard(limit=1000).  An exception
\* out of get_leaderboard is caught and gives None.
get_user_rank(user_id) ==
    {[ret |-> IF lb.raised THEN None ELSE RankIn(lb.ret, user_id),
      raised |-> FALSE, error |-> lb.error,
      leaderboard |-> lb.ret, tiers |-> lb.tiers] :
        lb \in get_leaderboard(RankLimit)}

\* ------------------------------------------------------------- main.py
NoCall == [op |-> "none"]
NoPage == [handler |-> "none"]

\* The store before the first call.
InitStore ==
    /\ users = <<>>
    /\ typing_tests = <<>>
    /\ db_ret = NoCall

\* No metrics function under call.
InitLogicIdle ==
    /\ fn_call = NoCall
    /\ fn_ret = None

\* Initialize session state.
InitSession ==
    /\ user = None
    /\ test_started = FALSE
    /\ start_time = None
    /\ test_text = <<>>
    /\ typed_text = <<>>
    /\ saved_for_test = 0
    /\ page = NoPage

\* Latest reading of time.time(), in ticks.  The wall clock may be set back
\* between two readings, so a reading is any value of the range.
MaxTime == 1
Times == 0..MaxTime

\* EASY_TEXTS[0]
EASY_TEXTS_0 ==
    <<"T", "h", "e", " ", "q", "u", "i", "c", "k", " ", "b", "r", "o",
      "w", "n", " ", "f", "o", "x", " ", "j", "u", "m", "p", "s", " ",
      "o", "v", "e", "r", " ", "t", "h", "e", " ", "l", "a", "z", "y",
      " ", "d", "o", "g", ".">>

\* MEDIUM_TEXTS[0]
MEDIUM_TEXTS_0 ==
    <<"P", "r", "o", "g", "r", "a", "m", "m", "i", "n", "g", " ", "r",
      "e", "q", "u", "i", "r", "e", "s", " ", "p", "a", "t", "i", "e",
      "n", "c", "e", ",", " ", "p", "r", "a", "c", "t", "i", "c", "e",
      ",", " ", "a", "n", "d", " ", "p", "r", "o", "b", "l", "e", "m",
      "-", "s", "o", "l", "v", "i", "n", "g", " ", "s", "k", "i", "l",
      "l", "s", " ", "t", "o", " ", "m", "a", "s", "t", "e", "r", " ",
      "e", "f", "f", "e", "c", "t", "i", "v", "e", "l", "y", ".">>

\* HARD_TEXTS[0]
HARD_TEXTS_0 ==
    <<"Q", "u", "a", "n", "t", "u", "m", " ", "m", "e", "c", "h", "a",
      "n", "i", "c", "s", " ", "r", "e", "v", "o", "l", "u", "t", "i",
      "o", "n", "i", "z", "e", "d", " ", "p", "h", "y", "s", "i", "c",
      "s", " ", "b", "y", " ", "i", "n", "t", "r", "o", "d", "u", "c",
      "i", "n", "g", " ", "p", "r", "o", "b", "a", "b", "i", "l", "i",
      "s", "t", "i", "c", " ", "i", "n", "t", "e", "r", "p", "r", "e",
      "t", "a", "t", "i", "o", "n", "s", " ", "o", "f", " ", "s", "u",
      "b", "a", "t", "o", "m", "i", "c", " ", "p", "h", "e", "n", "o",
      "m", "e", "n", "a", ",", " ", "c", "h", "a", "l", "l", "e", "n",
      "g", "i", "n", "g", " ", "c", "l", "a", "s", "s", "i", "c", "a",
      "l", " ", "d", "e", "t", "e", "r", "m", "i", "n", "i", "s", "t",
      "i", "c", " ", "f", "r", "a", "m", "e", "w", "o", "r", "k", "s",
      ".">>

\* The pools of get_random_text, each by its first passage.
EASY_TEXTS == {EASY_TEXTS_0}
MEDIUM_TEXTS == {MEDIUM_TEXTS_0}
HARD_TEXTS == {HARD_TEXTS_0}

\* get_random_text(difficulty): the passages random.choice may return.
get_random_text(difficulty) ==
    IF difficulty = "easy" THEN EASY_TEXTS
    ELSE IF difficulty = "hard" THEN HARD_TEXTS
    ELSE MEDIUM_TEXTS

\* str.strip(): without the leading and trailing whitespace.
RECURSIVE Strip(_)
Strip(text) ==
    IF text = <<>> THEN text
    ELSE IF Head(text) = " " THEN Strip(Tail(text))
    ELSE IF text[Len(text)] = " " THEN Strip(SubSeq(text, 1, Len(text) - 1))
    ELSE text

\* What the user may enter: the login form, the selectbox, the custom text
\* area and the typing area.
FormEmails == Emails \cup {""}
FormNames == Names \cup {""}
Difficulties == {"easy", "medium", "hard"}
CustomTexts == {<<>>, <<" ">>, <<" ", "a", " ">>}
TypedTexts == StringsOver({"a"}, MaxLen)

\* What login_user() rendered: the form as submitted, the message shown, and
\* the messages of the store failures met by the lookup and by the insert.
LoginPage(email, name, message, lookup_error, insert_error) ==
    [handler |-> "login", email |-> email, name |-> name, message |-> message,
     lookup_error |-> lookup_error, insert_error |-> insert_error]

\* login_user(), the form submitted with email and name.
LoginWith(email, name) ==
    /\ page = NoPage
    /\ user = None
    /\ IF email = "" \/ name = ""
       THEN /\ page' = LoginPage(email, name,
                                 "Please provide both email and name",
                                 NoError, NoError)
            /\ UNCHANGED <<users, user>>
       ELSE \E found \in get_user_by_email(email) :
              IF found.ret # None
              THEN /\ user' = found.ret
                   /\ page' = LoginPage(email, name, "Welcome back",
                                        found.error, NoError)
                   /\ UNCHANGED users
              ELSE \E created \in create_user(name, email) :
                     /\ users' = created.users
                     /\ IF created.raised
                        THEN /\ page' = LoginPage(email, name,
                                            "Error: Cannot connect to database",
                                            found.error, created.error)
                             /\ UNCHANGED user
                        ELSE IF created.ret # None
                        THEN /\ user' = created.ret
                             /\ page' = LoginPage(email, name, "Account created",
                                                  found.error, created.error)
                        ELSE /\ page' = LoginPage(email, name,
                                                  "Failed to create account",
                                                  found.error, created.error)
                             /\ UNCHANGED user
    /\ UNCHANGED <<logic, typing_tests, db_ret, test_started, start_time,
                   test_text, typed_text, saved_for_test>>

Login == \E email \in FormEmails, name \in FormNames : LoginWith(email, name)

\* The same with one name to type.
LoginAnn == \E email \in Emails, name \in CallNames : LoginWith(email, name)

\* A plausible slip: logout_user() without its test_started = False.
Logout_KeepsTest ==
    /\ page = NoPage
    /\ user # None
    /\ user' = None
    /\ UNCHANGED <<logic, users, typing_tests, db_ret, test_started, start_time,
                   test_text, typed_text, saved_for_test, page>>

\* logout_user(), from the sidebar button.
Logout ==
    /\ page = NoPage
    /\ user # None
    /\ user' = None
    /\ test_started' = FALSE
    /\ UNCHANGED <<logic, users, typing_tests, db_ret, start_time, test_text,
                   typed_text, saved_for_test, page>>

\* "Start New Test": the run copies the selectbox and the custom text area
\* into the session (lines 272 and 281), then start_test() reads them.
StartTest ==
    /\ page = NoPage
    /\ user # None
    /\ ~test_started
    /\ \E difficulty \in Difficulties, custom_text \in CustomTexts, now \in Times :
          /\ test_started' = TRUE
          /\ start_time' = Some(now)
          /\ typed_text' = <<>>
          /\ IF Strip(custom_text) # <<>>
             THEN test_text' = Strip(custom_text)
             ELSE test_text' \in get_random_text(difficulty)
    /\ saved_for_test' = 0
    /\ UNCHANGED <<logic, users, typing_tests, db_ret, user, page>>

\* "Reset Test": reset_test().
ResetTest ==
    /\ page = NoPage
    /\ user # None
    /\ test_started
    /\ test_started' = FALSE
    /\ start_time' = None
    /\ typed_text' = <<>>
    /\ test_text' = <<>>
    /\ UNCHANGED <<logic, users, typing_tests, db_ret, user, saved_for_test, page>>

\* The typing area changed: on_type_change() and line 316.
Type ==
    /\ page = NoPage
    /\ user # None
    /\ test_started
    /\ \E typed \in TypedTexts : typed_text' = typed
    /\ UNCHANGED <<logic, users, typing_tests, db_ret, user, test_started,
                   start_time, test_text, saved_for_test, page>>

\* save_test_result(wpm, accuracy) = whether the row was saved.
save_test_result(wpm, accuracy) ==
    IF user # None
    THEN {[ret |-> result.ret # None, typing_tests |-> result.typing_tests] :
            result \in save_typing_test(Get(user).user_id, wpm, accuracy)}
    ELSE {[ret |-> FALSE, typing_tests |-> typing_tests]}

\* "Finish Test".  The session is left as it is: the test stays started.
Finish ==
    /\ page = NoPage
    /\ user # None
    /\ test_started
    /\ IF typed_text = <<>>
       THEN /\ page' = [handler |-> "finish",
                        message |-> "Please type something before finishing!"]
            /\ UNCHANGED <<typing_tests, saved_for_test>>
       ELSE /\ Len(typing_tests) < MaxTests
            /\ \E now \in Times :
                 LET elapsed == now - Get(start_time)
                     wpm == calculate_wpm(Len(typed_text), elapsed)
                     accuracy == calculate_accuracy(test_text, typed_text)[1]
                 IN  \E saved \in save_test_result(wpm, accuracy) :
                        /\ typing_tests' = saved.typing_tests
                        /\ saved_for_test' = IF saved.ret THEN saved_for_test + 1
                                             ELSE saved_for_test
                        /\ page' = [handler |-> "finish",
                                    message |-> "Test Complete!",
                                    wpm |-> wpm, accuracy |-> accuracy,
                                    saved |-> saved.ret]
    /\ UNCHANGED <<logic, users, db_ret, user, test_started, start_time,
                   test_text, typed_text>>

\* "Take Another Test" sits inside the block of the Finish button.  Its click
\* starts a run in which the Finish button is not clicked, so the block, and
\* with it reset_test(), is not reached: the results vanish, nothing else.
TakeAnotherTest ==
    /\ page # NoPage
    /\ page.handler = "finish"
    /\ page.message = "Test Complete!"
    /\ page' = NoPage
    /\ UNCHANGED <<logic, users, typing_tests, db_ret, user, test_started,
                   start_time, test_text, typed_text, saved_for_test>>

\* The sidebar of a logged-in user: get_user_rank for the session user.  The
\* two calls before it, get_user_average_stats and get_user_best_score, only
\* read the store and decide what is drawn, not what is kept.
Sidebar ==
    /\ page = NoPage
    /\ user # None
    /\ \E ranked \in get_user_rank(Get(user).user_id) :
          page' = [handler |-> "sidebar", user_id |-> Get(user).user_id,
                   rank |-> ranked.ret, tiers |-> ranked.tiers]
    /\ UNCHANGED <<logic, users, typing_tests, db_ret, user, test_started,
                   start_time, test_text, typed_text, saved_for_test>>

\* Any further interaction starts a new run, which renders the page anew.
Rerun ==
    /\ page # NoPage
    /\ page' = NoPage
    /\ UNCHANGED <<logic, users, typing_tests, db_ret, user, test_started,
                   start_time, test_text, typed_text, saved_for_test>>

InitApp ==
    /\ InitLogicIdle
    /\ InitStore
    /\ InitSession

NextApp ==
    \/ LoginAnn
    \/ Logout
    \/ StartTest
    \/ ResetTest
    \/ Type
    \/ Finish
    \/ TakeAnotherTest
    \/ Sidebar
    \/ Rerun

\* The application.
Spec == InitApp /\ [][NextApp]_vars

\* Logins and logouts alone.
NextLogin == Login \/ Logout \/ Rerun

SpecLogin == InitApp /\ [][NextLogin]_vars

\* -------------------------------------------- the metrics functions, called
\* The arguments of calculate_wpm: lengths from below zero to a page, times
\* from a second before zero to a minute, in ticks.
WpmLengths == (-1..MaxLen) \cup {250}
WpmTicks ==
    {0 - TicksPerSecond, -1, 0, 1, 7, TicksPerSecond, 60 * TicksPerSecond}

\* Characters of the strings handed to get_character_comparison.
ComparisonAlphabet == Alphabet \cup {"c"}

\* The arguments of get_performance_rating and of validate_test_result, in
\* hundredths: each threshold, its two neighbours, and the examples.
RatingWpm ==
    {-100, 0, 1000, 1999, 2000, 2001, 3999, 4000, 4001, 5999, 6000, 6001,
     6500, 7999, 8000, 8001, 40000}
RatingAccuracy == {-100, 0, 7000, 7999, 8000, 8001, 8999, 9000, 9001, 9500,
                   10000, 10001}
ValidateWpm == {-100, -1, 0, 1, 6500, 29999, 30000, 30001, 48000}
ValidateAccuracy == {-100, -1, 0, 1, 9500, 9999, 10000, 10001, 20000}

\* The arguments of calculate_progress, in thousandths: the examples, a pair
\* that differs below the hundredth, a fractional pair and a negative value.
ProgressWpm == {-20000, 0, 40500, 50000, 50004, 50250, 60000}

LogicCalls ==
    [op : {"calculate_accuracy"},
     original_text : StringsOver(Alphabet, MaxLen),
     typed_text : StringsOver(Alphabet, MaxLen)]
    \cup [op : {"calculate_wpm"}, text_length : WpmLengths, ticks : WpmTicks]
    \cup [op : {"get_performance_rating"},
          wpm : RatingWpm, accuracy : RatingAccuracy]
    \cup [op : {"validate_test_result"},
          wpm : ValidateWpm, accuracy : ValidateAccuracy]
    \cup [op : {"calculate_progress"},
          current_wpm : ProgressWpm, previous_wpm : ProgressWpm]
    \cup [op : {"accuracy_and_comparison"},
          original_text : StringsOver(Alphabet, MaxLen),
          typed_text : StringsOver(Alphabet, MaxLen)]
    \cup [op : {"get_character_comparison"},
          original_text : StringsOver(ComparisonAlphabet, MaxLen),
          typed_text : StringsOver(ComparisonAlphabet, MaxLen)]

InitLogic ==
    /\ fn_call \in LogicCalls
    /\ fn_ret = None
    /\ InitStore
    /\ InitSession

CallCalculateAccuracy ==
    /\ fn_call.op = "calculate_accuracy"
    /\ fn_ret = None
    /\ fn_ret' = Some(calculate_accuracy(fn_call.original_text,
                                       fn_call.typed_text))
    /\ UNCHANGED <<fn_call, users, typing_tests, db_ret, session>>

CallCalculateWpm ==
    /\ fn_call.op = "calculate_wpm"
    /\ fn_ret = None
    /\ fn_ret' = Some(calculate_wpm(fn_call.text_length, fn_call.ticks))
    /\ UNCHANGED <<fn_call, users, typing_tests, db_ret, session>>

CallGetCharacterComparison ==
    /\ fn_call.op = "get_character_comparison"
    /\ fn_ret = None
    /\ fn_ret' = Some(get_character_comparison(fn_call.original_text,
                                             fn_call.typed_text))
    /\ UNCHANGED <<fn_call, users, typing_tests, db_ret, session>>

CallGetPerformanceRating ==
    /\ fn_call.op = "get_performance_rating"
    /\ fn_ret = None
    /\ fn_ret' = Some(get_performance_rating(fn_call.wpm, fn_call.accuracy))
    /\ UNCHANGED <<fn_call, users, typing_tests, db_ret, session>>

CallValidateTestResult ==
    /\ fn_call.op = "validate_test_result"
    /\ fn_ret = None
    /\ fn_ret' = Some(validate_test_result(fn_call.wpm, fn_call.accuracy))
    /\ UNCHANGED <<fn_call, users, typing_tests, db_ret, session>>

CallCalculateProgress ==
    /\ fn_call.op = "calculate_progress"
    /\ fn_ret = None
    /\ fn_ret' = Some(calculate_progress(fn_call.current_wpm,
                                       fn_call.previous_wpm))
    /\ UNCHANGED <<fn_call, users, typing_tests, db_ret, session>>

\* Both functions called on one pair of strings.
CallAccuracyAndComparison ==
    /\ fn_call.op = "accuracy_and_comparison"
    /\ fn_ret = None
    /\ fn_ret' = Some([accuracy |-> calculate_accuracy(fn_call.original_text,
                                                     fn_call.typed_text),
                       comparison |->
                           get_character_comparison(fn_call.original_text,
                                                    fn_call.typed_text)])
    /\ UNCHANGED <<fn_call, users, typing_tests, db_ret, session>>

NextLogic ==
    \/ CallCalculateAccuracy
    \/ CallCalculateWpm
    \/ CallGetCharacterComparison
    \/ CallGetPerformanceRating
    \/ CallValidateTestResult
    \/ CallCalculateProgress
    \/ CallAccuracyAndComparison

SpecLogic == InitLogic /\ [][NextLogic]_vars

\* ------------------------------------------------ TypingDB, called directly
\* The arguments of the calls.
WpmValues == {4000, 6000}
AccuracyValues == {9000, 10000}
\* limit: none, fewer than the rows, the leaderboard tab's 10.
Limits == {0, 1, 10}

Result(call, o) ==
    call @@ [ret |-> o.ret, raised |-> o.raised, error |-> o.error]

DbCreateUser ==
    /\ db_ret = NoCall
    /\ \E name \in CallNames, email \in Emails :
        \E o \in create_user(name, email) :
            /\ users' = o.users
            /\ db_ret' = Result([op |-> "create_user", name |-> name,
                                 email |-> email], o)
            /\ UNCHANGED <<logic, typing_tests, session>>

DbGetUserByEmail ==
    /\ db_ret = NoCall
    /\ \E email \in Emails :
        \E o \in get_user_by_email(email) :
            /\ db_ret' = Result([op |-> "get_user_by_email", email |-> email], o)
            /\ UNCHANGED <<logic, users, typing_tests, session>>

DbGetUserById ==
    /\ db_ret = NoCall
    /\ \E user_id \in UserIds :
        \E o \in get_user_by_id(user_id) :
            /\ db_ret' = Result([op |-> "get_user_by_id", user_id |-> user_id], o)
            /\ UNCHANGED <<logic, users, typing_tests, session>>

DbSaveTypingTest ==
    /\ db_ret = NoCall
    /\ Len(typing_tests) < MaxTests
    /\ \E user_id \in UserIds, wpm \in WpmValues, accuracy \in AccuracyValues :
        \E o \in save_typing_test(user_id, wpm, accuracy) :
            /\ typing_tests' = o.typing_tests
            /\ db_ret' = Result([op |-> "save_typing_test", user_id |-> user_id,
                                 wpm |-> wpm, accuracy |-> accuracy], o)
            /\ UNCHANGED <<logic, users, session>>

DbGetUserTests ==
    /\ db_ret = NoCall
    /\ \E user_id \in UserIds, limit \in Limits :
        \E o \in get_user_tests(user_id, limit) :
            /\ db_ret' = Result([op |-> "get_user_tests", user_id |-> user_id,
                                 limit |-> limit], o)
            /\ UNCHANGED <<logic, users, typing_tests, session>>

DbGetUserBestScore ==
    /\ db_ret = NoCall
    /\ \E user_id \in UserIds :
        \E o \in get_user_best_score(user_id) :
            /\ db_ret' = Result([op |-> "get_user_best_score",
                                 user_id |-> user_id], o)
            /\ UNCHANGED <<logic, users, typing_tests, session>>

DbGetUserAverageStats ==
    /\ db_ret = NoCall
    /\ \E user_id \in UserIds :
        \E o \in get_user_average_stats(user_id) :
            /\ db_ret' = Result([op |-> "get_user_average_stats",
                                 user_id |-> user_id], o)
            /\ UNCHANGED <<logic, users, typing_tests, session>>

DbGetLeaderboard ==
    /\ db_ret = NoCall
    /\ \E limit \in Limits :
        \E o \in get_leaderboard(limit) :
            /\ db_ret' = Result([op |-> "get_leaderboard", limit |-> limit,
                                 tiers |-> o.tiers, rows |-> o.rows], o)
            /\ UNCHANGED <<logic, users, typing_tests, session>>

DbGetUserRank ==
    /\ db_ret = NoCall
    /\ \E user_id \in UserIds :
        \E o \in get_user_rank(user_id) :
            /\ db_ret' = Result([op |-> "get_user_rank", user_id |-> user_id,
                                 tiers |-> o.tiers,
                                 leaderboard |-> o.leaderboard], o)
            /\ UNCHANGED <<logic, users, typing_tests, session>>

DbGetGlobalStats ==
    /\ db_ret = NoCall
    /\ \E o \in get_global_stats :
        /\ db_ret' = Result([op |-> "get_global_stats"], o)
        /\ UNCHANGED <<logic, users, typing_tests, session>>

\* The caller has taken the result: the next call may be made.
DbReturn ==
    /\ db_ret # NoCall
    /\ db_ret' = NoCall
    /\ UNCHANGED <<logic, users, typing_tests, session>>

InitDB ==
    /\ InitLogicIdle
    /\ InitStore
    /\ InitSession

NextDB ==
    \/ DbCreateUser
    \/ DbGetUserByEmail
    \/ DbGetUserById
    \/ DbSaveTypingTest
    \/ DbGetUserTests
    \/ DbGetUserBestScore
    \/ DbGetUserAverageStats
    \/ DbGetLeaderboard
    \/ DbGetUserRank
    \/ DbGetGlobalStats
    \/ DbReturn

SpecDB == InitDB /\ [][NextDB]_vars

\* ------------------------------------------------------------------ claims
Returned(op) == fn_call.op = op /\ fn_ret # None

\* C1: calculate_accuracy(original, typed): an empty original gives
\* (100.0, 0, 0) whatever typed is; otherwise totalCount = len(original),
\* correctCount = the number of indices below min(len, len) where the two
\* strings carry the same character (case-sensitive), and accuracy is
\* correctCount / len(original) * 100 when typed is shorter than original,
\* else correctCount / len(typed) * 100, to the nearest hundredth.
C1_AccuracyContract ==
    Returned("calculate_accuracy") =>
        LET o == fn_call.original_text
            t == fn_call.typed_text
            matches == {i \in 1..Len(o) : i <= Len(t) /\ o[i] = t[i]}
            denominator == IF Len(t) < Len(o) THEN Len(o) ELSE Len(t)
        IN  IF Len(o) = 0 THEN Get(fn_ret) = <<10000, 0, 0>>
            ELSE /\ Get(fn_ret)[3] = Len(o)
                 /\ Get(fn_ret)[2] = Cardinality(matches)
                 \* nearest hundredth of 100 * matches / denominator
                 /\ 2 * (Get(fn_ret)[1] * denominator - 10000 * Cardinality(matches))
                        <= denominator
                 /\ 2 * (10000 * Cardinality(matches) - Get(fn_ret)[1] * denominator)
                        <= denominator

\* C1 witness: an overtyped call (typed longer than a non-empty original)
\* with a matching first character has returned 50.0.
C1_Witness ==
    /\ Returned("calculate_accuracy")
    /\ Len(fn_call.original_text) = 1
    /\ Len(fn_call.typed_text) = 2
    /\ Get(fn_ret) = <<5000, 1, 1>>

\* The last call was op and its result is in db_ret.
Called(op) == db_ret.op = op

\* C2: get_leaderboard never raises, for any limit and any failures of the
\* three sources and of the user lookups; when tier 1 raised, tier 2 was
\* queried; when tier 2 raised as well, tier 3 was queried; when all three
\* raised, the result is the empty sequence.
C2_LeaderboardNeverRaises ==
    Called("get_leaderboard") =>
        /\ ~db_ret.raised
        /\ db_ret.tiers[1] = "raised" => Len(db_ret.tiers) >= 2
        /\ (Len(db_ret.tiers) >= 2 /\ db_ret.tiers[2] = "raised")
              => Len(db_ret.tiers) = 3
        /\ db_ret.tiers = <<"raised", "raised", "raised">> => db_ret.ret = <<>>

\* C2 witness: with tests in the store, all three tiers raised and the call
\* returned the empty sequence.
C2_Witness ==
    /\ Called("get_leaderboard")
    /\ typing_tests # <<>>
    /\ db_ret.tiers = <<"raised", "raised", "raised">>
    /\ db_ret.ret = <<>>
    /\ ~db_ret.raised

\* An entry built by tier 1 or 2 from a row of the individual tests.
FromTests(entry) ==
    /\ DOMAIN entry = {"user_id", "name", "wpm", "accuracy", "test_date"}
    /\ \E t \in Range(typing_tests) :
          /\ t.user_id = entry.user_id /\ t.wpm = entry.wpm
          /\ t.accuracy = entry.accuracy /\ t.test_date = entry.test_date

\* An entry built by tier 3 from a row of the per-user view.
FromView(entry) ==
    /\ DOMAIN entry = {"user_id", "name", "wpm", "accuracy"}
    /\ \E v \in Range(LeaderboardView) :
          /\ v.user_id = entry.user_id /\ v.max_wpm = entry.wpm
          /\ v.best_accuracy = entry.accuracy

\* C3: the tiers are queried in the order top_tests, typing_tests, leaderboard
\* view; tier k+1 is queried exactly when tier k raised or gave no rows (also
\* tier 3 after an empty tier 2); the first tier with rows ends the call, and
\* the entries returned are those of that tier only.
C3_FirstNonEmptyTierWins ==
    Called("get_leaderboard") =>
        LET tiers == db_ret.tiers
            n == Len(tiers)
        IN  /\ n \in 1..3
            /\ \A k \in 1..n - 1 : tiers[k] \in {"raised", "empty"}
            /\ n < 3 => tiers[n] = "rows"
            /\ tiers[n] \in {"raised", "empty", "rows"}
            /\ tiers[n] # "rows" => db_ret.ret = <<>>
            /\ tiers[n] = "rows" =>
                  /\ db_ret.ret # <<>>
                  /\ \A i \in 1..Len(db_ret.ret) :
                        IF n = 3 THEN FromView(db_ret.ret[i])
                        ELSE FromTests(db_ret.ret[i])

\* C3 witness: tier 1 raised and tier 2 answered with two rows, which are the
\* result; tier 3 was not queried.
C3_Witness ==
    /\ Called("get_leaderboard")
    /\ db_ret.tiers = <<"raised", "rows">>
    /\ Len(db_ret.ret) = 2
    /\ \A i \in 1..2 : FromTests(db_ret.ret[i])

\* C4: get_user_rank(userId) never raises and returns the 1-based position of
\* the first entry of get_leaderboard(limit=1000) whose user_id is userId,
\* None when there is none; the leaderboard scanned is the one of whichever
\* tier answered.
C4_RankIsFirstPosition ==
    Called("get_user_rank") =>
        LET lb == db_ret.leaderboard
            hits == {i \in 1..Len(lb) : lb[i].user_id = db_ret.user_id}
        IN  /\ ~db_ret.raised
            /\ \A i \in 1..Len(lb) :
                  IF Len(db_ret.tiers) = 3 THEN FromView(lb[i])
                  ELSE FromTests(lb[i])
            /\ hits = {} <=> db_ret.ret = None
            /\ hits # {} =>
                  /\ db_ret.ret # None
                  /\ Get(db_ret.ret) \in hits
                  /\ \A j \in hits : Get(db_ret.ret) <= j

\* C4 witness: tier 3 answered and the user asked for is second in it.
C4_Witness ==
    /\ Called("get_user_rank")
    /\ Len(db_ret.tiers) = 3
    /\ db_ret.ret = Some(2)
    /\ db_ret.leaderboard[2].user_id = db_ret.user_id
    /\ db_ret.leaderboard[1].user_id # db_ret.user_id

\* The neutral value an operation returns when the store failed.
Neutral(op) ==
    CASE op = "get_user_average_stats" -> Some(NoStats)
      [] op = "get_global_stats" -> Some(NoGlobalStats)
      [] OTHER -> Some(<<>>)

\* C8 as stated: no operation of TypingDB lets an exception reach its caller,
\* whatever the store does.
C8_NoOperationRaises ==
    ~Called("none") => ~db_ret.raised

\* C8 as it holds: create_user raises exactly when the store failed with a
\* connection error; no other operation raises; and every failure that is not
\* raised gives the operation's empty, neutral or absent result.
C8_OnlyCreateUserRaisesOnConnection ==
    ~Called("none") =>
        /\ db_ret.raised <=>
              (Called("create_user") /\ db_ret.error = ConnectionError)
        /\ (db_ret.error # NoError /\ ~db_ret.raised)
              => Some(db_ret.ret) = Neutral(db_ret.op)

\* C8 witness: create_user met a connection error and raised.
C8_Witness ==
    /\ Called("create_user")
    /\ db_ret.error = ConnectionError
    /\ db_ret.raised

\* The page of the last run is that of handler.
Rendered(handler) == page.handler = handler

\* C5: after any logins and test submissions, get_user_rank(u) is None for
\* every user u without a stored result, whatever the other users stored and
\* whichever tier answers: for the rank the sidebar showed, and for every way
\* the call may go in every state the application reaches.
C5_NoResultsNoRank ==
    /\ (Rendered("sidebar") /\ TestsOf(page.user_id) = <<>>) => page.rank = None
    /\ page = NoPage =>
          \A u \in UserIds :
              TestsOf(u) = <<>> => \A o \in get_user_rank(u) : o.ret = None

\* C5 witness: the sidebar of a user without results showed no rank while a
\* tier answered with the rows of another user's results.
C5_Witness ==
    /\ Rendered("sidebar")
    /\ TestsOf(page.user_id) = <<>>
    /\ typing_tests # <<>>
    /\ page.tiers[Len(page.tiers)] = "rows"
    /\ page.rank = None

\* C6: every stored result has wpm >= 0 and 0 <= accuracy <= 100, and no
\* result is created from an empty typed string: a step that inserts a row is
\* taken with a non-empty typed buffer (Finish on an empty buffer saves
\* nothing).
C6_StoredResultsInRange ==
    /\ [](\A i \in 1..Len(typing_tests) :
             /\ typing_tests[i].wpm >= 0
             /\ typing_tests[i].accuracy >= 0
             /\ typing_tests[i].accuracy <= 10000)
    /\ [][typing_tests' # typing_tests => typed_text # <<>>]_vars
    /\ []((Rendered("finish") /\ typed_text = <<>>)
             => page.message = "Please type something before finishing!")

\* C6 witness: a Finish on two typed characters against a one-character text,
\* with the clock not ahead of start_time, saved wpm 0.0 and accuracy 50.0.
C6_Witness ==
    /\ Rendered("finish")
    /\ page.message = "Test Complete!"
    /\ page.saved
    /\ Len(typed_text) = 2
    /\ Len(test_text) = 1
    /\ typing_tests[Len(typing_tests)].wpm = 0
    /\ typing_tests[Len(typing_tests)].accuracy = 5000

\* C7: every (wpm, accuracy) stored by finishing a test is one that
\* validate_test_result accepts; no stored result has wpm > 300.
C7_OnlyValidatedResultsStored ==
    \A i \in 1..Len(typing_tests) :
        /\ validate_test_result(typing_tests[i].wpm, typing_tests[i].accuracy)[1]
        /\ typing_tests[i].wpm <= 30000

\* C9: a test that is started and finished (non-empty typed text, logged-in
\* user, working store) inserts exactly one result: a Finish that saved is the
\* only one of its test; and no step changes or removes a stored result.
C9_OneResultPerTest ==
    /\ [](saved_for_test <= 1)
    /\ []((Rendered("finish") /\ page.message = "Test Complete!" /\ page.saved)
             => saved_for_test = 1)
    /\ [][SubSeq(typing_tests', 1, Len(typing_tests)) = typing_tests]_vars

\* The login form held an email and a name.
FormFilled == Rendered("login") /\ page.email # "" /\ page.name # ""

\* C10 as stated: every login with an email and a name ends with the record of
\* that email as the session user (created when there was none, the stored
\* one otherwise).
C10_LoginAlwaysYieldsTheRecord ==
    FormFilled =>
        /\ user # None
        /\ Get(user).email = page.email
        /\ Get(user) \in Range(users)

\* C10 as it holds.  When the lookup and the insert of a login met no store
\* failure, the session user is the record of the email typed: the new last
\* row, with the name typed, after "Account created"; the row stored before,
\* with its stored name, after "Welcome back".  When one failed, nobody is
\* logged in, unless the lookup failed for an email without a record, which is
\* then created.  In every step the table users is the same or longer by one
\* row with an email it did not hold; no two rows share an email; the session
\* user is a row of the table.
C10_UserCreatedOnceNeverChanged ==
    /\ [](FormFilled =>
            /\ (page.lookup_error = NoError /\ page.insert_error = NoError)
                  => /\ user # None
                     /\ Get(user).email = page.email
                     /\ page.message \in {"Account created", "Welcome back"}
            /\ page.message = "Account created"
                  => /\ user = Some(users[Len(users)])
                     /\ Get(user).name = page.name
                     /\ Get(user).email = page.email
            /\ page.message = "Welcome back"
                  => /\ user # None
                     /\ Get(user).email = page.email
                     /\ page.insert_error = NoError
            /\ page.message \notin {"Account created", "Welcome back"}
                  => /\ user = None
                     /\ page.lookup_error # NoError \/ page.insert_error # NoError)
    /\ [](\A i, j \in 1..Len(users) :
             users[i].email = users[j].email => i = j)
    /\ [](user # None => Get(user) \in Range(users))
    /\ [][\/ users' = users
          \/ /\ Len(users') = Len(users) + 1
             /\ SubSeq(users', 1, Len(users)) = users
             /\ \A i \in 1..Len(users) :
                   users[i].email # users'[Len(users')].email
             /\ user' = Some(users'[Len(users')])]_vars

\* C10 witness: a login with the email of a stored record and another name
\* than the stored one made the stored record the session user.
C10_Witness ==
    /\ FormFilled
    /\ page.message = "Welcome back"
    /\ Len(users) = 2
    /\ Get(user).name # page.name
    /\ Get(user) \in Range(users)

\* C11: for every typedLength and every elapsed time <= 0, zero or
\* negative, calculate_wpm returns 0.0 (and so returns: it does not raise).
C11_WpmZeroForNonPositiveTime ==
    (Returned("calculate_wpm") /\ fn_call.ticks <= 0) => Get(fn_ret) = 0

\* C11 witness: calculate_wpm(250, -1 s) has returned 0.0.
C11_Witness ==
    /\ Returned("calculate_wpm")
    /\ fn_call.text_length = 250
    /\ fn_call.ticks = 0 - TicksPerSecond
    /\ Get(fn_ret) = 0

\* C12: for typedLength >= 0 and elapsed time > 0, calculate_wpm returns
\* (typedLength / 5) / (elapsedSeconds / 60) to the nearest hundredth, which
\* is non-negative; calculate_wpm(0, 60) = 0.0, calculate_wpm(250, 60) = 50.0.
C12_WpmFormula ==
    (Returned("calculate_wpm") /\ fn_call.text_length >= 0 /\ fn_call.ticks > 0) =>
        LET wpm == Get(fn_ret)
            \* 100 * (len / 5) / (ticks / TicksPerSecond / 60) = n / d
            n == 100 * fn_call.text_length * 60 * TicksPerSecond
            d == 5 * fn_call.ticks
        IN  /\ 2 * (wpm * d - n) <= d
            /\ 2 * (n - wpm * d) <= d
            /\ wpm >= 0
            /\ fn_call.ticks = 60 * TicksPerSecond =>
                  /\ fn_call.text_length = 0 => wpm = 0
                  /\ fn_call.text_length = 250 => wpm = 5000

\* C12 witness: calculate_wpm(250, 60) has returned 50.0.
C12_Witness ==
    /\ Returned("calculate_wpm")
    /\ fn_call.text_length = 250
    /\ fn_call.ticks = 60 * TicksPerSecond
    /\ Get(fn_ret) = 5000

\* C13: get_character_comparison(original, typed) returns exactly
\* max(len(original), len(typed)) entries, with index 0..max-1 in increasing
\* order; the entry at index i is "extra" when i is past the end of original,
\* "missing" when i is past the end of typed, "correct" when both characters
\* are present and equal, "incorrect" when both are present and differ.
C13_ComparisonContract ==
    Returned("get_character_comparison") =>
        LET o == fn_call.original_text
            t == fn_call.typed_text
            comparison == Get(fn_ret)
        IN  /\ Len(comparison) = (IF Len(o) > Len(t) THEN Len(o) ELSE Len(t))
            /\ \A k \in 1..Len(comparison) :
                  LET i == k - 1
                      entry == comparison[k]
                  IN  /\ entry.index = i
                      /\ i >= Len(o) => entry.status = "extra"
                      /\ i >= Len(t) => entry.status = "missing"
                      /\ (i < Len(o) /\ i < Len(t)) =>
                            /\ entry.original = o[k]
                            /\ entry.typed = t[k]
                            /\ entry.status = (IF o[k] = t[k] THEN "correct"
                                                ELSE "incorrect")

\* C13 witness: the comparison of "ab" with "ac" has returned correct a/a,
\* then incorrect b/c.
C13_Witness ==
    /\ Returned("get_character_comparison")
    /\ fn_call.original_text = <<"a", "b">>
    /\ fn_call.typed_text = <<"a", "c">>
    /\ Get(fn_ret) = <<[index |-> 0, original |-> "a", typed |-> "a",
                        status |-> "correct"],
                       [index |-> 1, original |-> "b", typed |-> "c",
                        status |-> "incorrect"]>>

\* The tier of a rating: the word before " - ".
Tier(rating) ==
    CASE rating = "Poor - Focus on accuracy first" -> "Poor"
      [] rating = "Fair - Good progress, keep practicing" -> "Fair"
      [] rating = "Beginner - Great start!" -> "Beginner"
      [] rating = "Intermediate - Nice progress!" -> "Intermediate"
      [] rating = "Advanced - Excellent typing!" -> "Advanced"
      [] rating = "Expert - Outstanding speed!" -> "Expert"
      [] rating = "Master - Incredible performance!" -> "Master"
      [] OTHER -> "none"

\* C14: get_performance_rating(wpm, accuracy) gives exactly one tier:
\* accuracy < 80 gives Poor and 80 <= accuracy < 90 gives Fair, whatever wpm
\* is; accuracy >= 90 gives Beginner for wpm < 20, Intermediate for
\* 20 <= wpm < 40, Advanced for 40 <= wpm < 60, Expert for 60 <= wpm < 80 and
\* Master for wpm >= 80.
C14_RatingTiers ==
    Returned("get_performance_rating") =>
        LET wpm == fn_call.wpm
            accuracy == fn_call.accuracy
            tier == Tier(Get(fn_ret))
        IN  /\ accuracy < 8000 => tier = "Poor"
            /\ (8000 <= accuracy /\ accuracy < 9000) => tier = "Fair"
            /\ accuracy >= 9000 =>
                  /\ wpm < 2000 => tier = "Beginner"
                  /\ (2000 <= wpm /\ wpm < 4000) => tier = "Intermediate"
                  /\ (4000 <= wpm /\ wpm < 6000) => tier = "Advanced"
                  /\ (6000 <= wpm /\ wpm < 8000) => tier = "Expert"
                  /\ wpm >= 8000 => tier = "Master"

\* C14 witness: get_performance_rating(65, 95) has returned the Expert tier.
C14_Witness ==
    /\ Returned("get_performance_rating")
    /\ fn_call.wpm = 6500
    /\ fn_call.accuracy = 9500
    /\ Get(fn_ret) = "Expert - Outstanding speed!"

\* C15: validate_test_result(wpm, accuracy) returns ok = true exactly when
\* 0 <= wpm <= 300 and 0 <= accuracy <= 100; the reason is empty exactly when
\* ok is true; a wpm violation is reported in preference to an accuracy
\* violation.
C15_ValidateContract ==
    Returned("validate_test_result") =>
        LET wpm == fn_call.wpm
            accuracy == fn_call.accuracy
            ok == Get(fn_ret)[1]
            reason == Get(fn_ret)[2]
            wpm_reasons == {"WPM cannot be negative",
                            "WPM seems unrealistically high (>300)"}
        IN  /\ ok = (0 <= wpm /\ wpm <= 30000 /\ 0 <= accuracy /\ accuracy <= 10000)
            /\ (reason = "") = ok
            /\ (wpm < 0 \/ wpm > 30000) => reason \in wpm_reasons
            /\ (0 <= wpm /\ wpm <= 30000 /\ ~ok) => reason \notin wpm_reasons

\* C15 witness: a call with wpm above 300 and accuracy above 100 was rejected
\* for its wpm.
C15_Witness ==
    /\ Returned("validate_test_result")
    /\ fn_call.wpm = 30001
    /\ fn_call.accuracy = 10001
    /\ Get(fn_ret) = <<FALSE, "WPM seems unrealistically high (>300)">>

\* C16: get_leaderboard(limit) returns at most limit entries in descending
\* order of wpm: one entry per row the answering tier returned, in the same
\* order, each with that row's user_id, wpm (max_wpm for tier 3) and accuracy,
\* and with the name of the stored user of that id, or "Unknown" when the
\* lookup found no user or failed.
C16_LeaderboardEntries ==
    Called("get_leaderboard") =>
        LET entries == db_ret.ret
            rows == db_ret.rows
            view == Len(db_ret.tiers) = 3
        IN  /\ Len(entries) <= db_ret.limit
            /\ \A i, j \in 1..Len(entries) :
                  i < j => entries[i].wpm >= entries[j].wpm
            /\ Len(entries) = Len(rows)
            /\ \A i \in 1..Len(entries) :
                  /\ IF view THEN FromView(entries[i]) ELSE FromTests(entries[i])
                  /\ entries[i].user_id = rows[i].user_id
                  /\ entries[i].wpm =
                        (IF view THEN rows[i].max_wpm ELSE rows[i].wpm)
                  /\ entries[i].accuracy =
                        (IF view THEN rows[i].best_accuracy ELSE rows[i].accuracy)
                  /\ \/ entries[i].name = "Unknown"
                     \/ \E u \in Range(users) :
                           /\ u.user_id = entries[i].user_id
                           /\ u.name = entries[i].name

\* C16 witness: with two results of different wpm stored, get_leaderboard(1)
\* returned one entry, the faster one, whose user lookup failed.
C16_Witness ==
    /\ Called("get_leaderboard")
    /\ db_ret.limit = 1
    /\ Len(typing_tests) = 2
    /\ typing_tests[1].wpm < typing_tests[2].wpm
    /\ Len(db_ret.ret) = 1
    /\ db_ret.ret[1].wpm = typing_tests[2].wpm
    /\ db_ret.ret[1].name = "Unknown"

\* C17: calculate_progress(current, previous): when previous = 0 it returns
\* improvement 0.0, percentage 0.0 and the baseline message; otherwise
\* improvement = current - previous and percentage = improvement / previous *
\* 100, each to the nearest hundredth, with the "Improved" message when
\* current - previous is positive, the "Decreased" message when it is negative
\* and the "Same speed" message when it is zero; (50, 0) gives the baseline,
\* (60, 50) gives 10.0, 20.0 and the "Improved" message.
C17_ProgressContract ==
    Returned("calculate_progress") =>
        LET current == fn_call.current_wpm
            previous == fn_call.previous_wpm
            result == Get(fn_ret)
            difference == current - previous
            \* percentage in hundredths = 100 * 100 * difference / previous
            sign == IF previous < 0 THEN -1 ELSE 1
            n == sign * 100 * 100 * difference
            d == sign * previous
        IN  /\ DOMAIN result = {"improvement", "percentage", "message"}
            /\ IF previous = 0
               THEN /\ result.improvement = 0
                    /\ result.percentage = 0
                    /\ result.message = <<"First test - baseline established!">>
               ELSE /\ 2 * (10 * result.improvement - difference) <= 10
                    /\ 2 * (difference - 10 * result.improvement) <= 10
                    /\ 2 * (result.percentage * d - n) <= d
                    /\ 2 * (n - result.percentage * d) <= d
                    /\ difference > 0 => Head(result.message) = "Improved by "
                    /\ difference < 0 => Head(result.message) = "Decreased by "
                    /\ difference = 0 =>
                          result.message = <<"Same speed. Keep practicing!">>
            /\ (current = 50000 /\ previous = 0) =>
                  result.message = <<"First test - baseline established!">>
            /\ (current = 60000 /\ previous = 50000) =>
                  /\ result.improvement = 1000
                  /\ result.percentage = 2000
                  /\ result.message = <<"Improved by ", 1000, " WPM! Keep it up!">>

\* C17 witness: calculate_progress(60, 50) has returned improvement 10.0,
\* percentage 20.0 and the "Improved" message.
C17_Witness ==
    /\ Returned("calculate_progress")
    /\ fn_call.current_wpm = 60000
    /\ fn_call.previous_wpm = 50000
    /\ Get(fn_ret).improvement = 1000
    /\ Get(fn_ret).percentage = 2000
    /\ Head(Get(fn_ret).message) = "Improved by "

\* C18: in every state reached through login, logout, start_test,
\* reset_test, typing and Finish, a started test has a logged-in user, a
\* start_time that is set and a non-empty test_text (so len(test_text) is not
\* zero and start_time can be subtracted from the clock).
C18_StartedTestIsWellFormed ==
    test_started =>
        /\ user # None
        /\ start_time # None
        /\ test_text # <<>>
        /\ Len(test_text) > 0

\* C18 witness: a started test was finished and saved and is still started,
\* with a user, a start_time and a text.
C18_Witness ==
    /\ test_started
    /\ Rendered("finish")
    /\ page.message = "Test Complete!"
    /\ page.saved
    /\ user # None
    /\ start_time # None
    /\ test_text = <<"a">>

\* C19: for every user u with at least one stored result, when the store
\* holds at most 1000 results and the typing_tests query of tier 2 does not
\* fail (tier 2 answered, or tier 1 did before it), get_user_rank(u) returns a
\* rank r, not None, with 1 <= r <= the number of stored results, and the
\* leaderboard entry at position r is u's and carries u's highest stored wpm.
C19_RankOfUserWithResults ==
    (/\ Called("get_user_rank")
     /\ TestsOf(db_ret.user_id) # <<>>
     /\ Len(typing_tests) <= RankLimit
     /\ Len(db_ret.tiers) >= 2 => db_ret.tiers[2] = "rows") =>
        /\ db_ret.ret # None
        /\ Get(db_ret.ret) >= 1
        /\ Get(db_ret.ret) <= Len(typing_tests)
        /\ db_ret.leaderboard[Get(db_ret.ret)].user_id = db_ret.user_id
        /\ \A i \in 1..Len(typing_tests) :
              typing_tests[i].user_id = db_ret.user_id =>
                  typing_tests[i].wpm <= db_ret.leaderboard[Get(db_ret.ret)].wpm
        /\ \E i \in 1..Len(typing_tests) :
              /\ typing_tests[i].user_id = db_ret.user_id
              /\ typing_tests[i].wpm = db_ret.leaderboard[Get(db_ret.ret)].wpm

\* C19 witness: tier 1 failed, tier 2 answered, and a user whose result is the
\* slower of the two stored was ranked second.
C19_Witness ==
    /\ Called("get_user_rank")
    /\ db_ret.tiers = <<"raised", "rows">>
    /\ Len(typing_tests) = 2
    /\ typing_tests[1].user_id # typing_tests[2].user_id
    /\ TestsOf(db_ret.user_id) # <<>>
    /\ db_ret.ret = Some(2)

\* The number of entries of a comparison with the status.
CountStatus(comparison, status) ==
    Cardinality({k \in 1..Len(comparison) : comparison[k].status = status})

\* C20: on every pair of strings, the correctCount of calculate_accuracy
\* equals the number of "correct" entries of get_character_comparison, and the
\* numbers of "missing" and "extra" entries are max(0, len(original) -
\* len(typed)) and max(0, len(typed) - len(original)).
C20_AccuracyAgreesWithComparison ==
    Returned("accuracy_and_comparison") =>
        LET o == fn_call.original_text
            t == fn_call.typed_text
            correct_chars == Get(fn_ret).accuracy[2]
            comparison == Get(fn_ret).comparison
        IN  /\ correct_chars = CountStatus(comparison, "correct")
            /\ CountStatus(comparison, "missing") =
                  (IF Len(o) > Len(t) THEN Len(o) - Len(t) ELSE 0)
            /\ CountStatus(comparison, "extra") =
                  (IF Len(t) > Len(o) THEN Len(t) - Len(o) ELSE 0)

\* C20 witness: on "a" against "aA" both functions count one correct
\* character, and the comparison has one "extra" entry.
C20_Witness ==
    /\ Returned("accuracy_and_comparison")
    /\ fn_call.original_text = <<"a">>
    /\ fn_call.typed_text = <<"a", "A">>
    /\ Get(fn_ret).accuracy[2] = 1
    /\ CountStatus(Get(fn_ret).comparison, "correct") = 1
    /\ CountStatus(Get(fn_ret).comparison, "extra") = 1

====
